---- MODULE Spec2Model ----
(***************************************************************************)
(* Outlier-aware K-Means pipeline: the EnhancedKMeans estimator, the       *)
(* analysis functions (find_optimal_k, run_standard_analysis,              *)
(* run_enhanced_analysis) and geocode_dataframe.                           *)
(*                                                                         *)
(* Feature rows are integer vectors.  A centroid is kept as the pair       *)
(* (sum of its members, member count), so that the mean is exact; inertia  *)
(* is kept in units of 1/Den^2.  The scikit-learn estimators are modelled  *)
(* by their contract: what they raise, the shape and range of what they    *)
(* return, and how the result depends on random_state.                     *)
(***************************************************************************)
EXTENDS Integers, Sequences, FiniteSets, TLC

VARIABLES input, est, call, session, ret, ksel, geo

vars == <<input, est, call, session, ret, ksel, geo>>

\* ---- bounds of the model -------------------------------------------------
MaxRows == 3
MaxTableRows == 4
MaxRawRows == 2
MaxColumns == 3
MaxUploadRows == 4
MaxK == 2
EntropyMax == 3

\* ---- Python values -------------------------------------------------------
\* an optional value is None or Some(v)
None == <<>>
Some(v) == <<v>>
\* the value of a variable that the running entry point does not use
Idle == [idle |-> TRUE]
\* the outcome of a call: a returned value or a raised exception
Ok(v) == [ok |-> TRUE, value |-> v]
Raise(type, msg) == [ok |-> FALSE, exc |-> [type |-> type, msg |-> msg]]

\* ---- arithmetic helpers --------------------------------------------------
RECURSIVE Pow(_, _)
Pow(b, e) == IF e = 0 THEN 1 ELSE b * Pow(b, e - 1)

RECURSIVE Fact(_)
Fact(n) == IF n <= 1 THEN 1 ELSE n * Fact(n - 1)

RECURSIVE SumOver(_, _)
SumOver(f, S) ==
    IF S = {} THEN 0
    ELSE LET i == CHOOSE j \in S : TRUE IN f[i] + SumOver(f, S \ {i})

Range(s) == {s[i] : i \in DOMAIN s}

\* the rows of P whose flag in keep is TRUE, in the original order (X[mask])
RECURSIVE BoolIndex(_, _)
BoolIndex(P, keep) ==
    IF P = <<>> THEN <<>>
    ELSE (IF Head(keep) THEN <<Head(P)>> ELSE <<>>) \o BoolIndex(Tail(P), Tail(keep))

\* common denominator of every centroid the model can form
Den == Fact(IF MaxRows > MaxTableRows THEN MaxRows ELSE MaxTableRows)

\* all matrices of at most n rows drawn from the row set R
Matrices(R, n) == UNION {[1..m -> R] : m \in 0..n}

\* ---- vectors and centroids -----------------------------------------------
Dim(P) == IF P = <<>> THEN 0 ELSE Len(P[1])

\* a centroid: the sum of its member rows and how many they are
Centroid(P, M) ==
    [sum |-> [d \in 1..Dim(P) |-> SumOver([i \in M |-> P[i][d]], M)],
     cnt |-> Cardinality(M)]

\* squared Euclidean distance from row x to centroid c, in units of 1/Den^2
SqDist(x, c) ==
    LET term == [d \in DOMAIN x |->
                    ((Den \div c.cnt) * (c.cnt * x[d] - c.sum[d]))
                  * ((Den \div c.cnt) * (c.cnt * x[d] - c.sum[d]))]
    IN SumOver(term, DOMAIN x)

\* ---- random_state --------------------------------------------------------
\* A seeded estimator draws the same stream for the same input; an unseeded
\* one (random_state=None) draws fresh entropy on every call.
RECURSIVE HashCells(_, _)
HashCells(h, cells) ==
    IF cells = <<>> THEN h
    ELSE HashCells((h * 31 + Head(cells) + 1) % 1009, Tail(cells))

RECURSIVE Checksum(_)
Checksum(P) ==
    IF P = <<>> THEN 1
    ELSE HashCells(Checksum(SubSeq(P, 1, Len(P) - 1)), P[Len(P)])

Entropy(random_state, P) ==
    IF random_state = None THEN 0..(EntropyMax - 1)
    ELSE {(random_state[1] + Checksum(P)) % EntropyMax}

\* the first row of P equal to row i: equal rows are treated alike
First(P, i) == CHOOSE j \in 1..i : P[j] = P[i] /\ \A l \in 1..(j - 1) : P[l] # P[i]

\* ---- sklearn.ensemble.IsolationForest ------------------------------------
\* contamination is a percentage.  Every row gets a score, equal rows the same
\* score; the threshold is the contamination percentile of the scores and a
\* row is an outlier (-1) when its score is strictly below it, so at most
\* ceil(contamination * (n - 1)) rows are flagged.  Which rows score low is
\* drawn from the entropy r.
MaxOutliers(n, contamination) == (contamination * (n - 1) + 99) \div 100

Bit(r, i) == (r \div Pow(2, i - 1)) % 2

IsolationForest_fit_predict(X, contamination, r) ==
    IF Len(X) = 0
    THEN Raise("ValueError", [text |-> "Found array with 0 sample(s)"])
    ELSE LET low(i) == Bit(r, First(X, i)) = 1
             below(i) == Cardinality({j \in 1..Len(X) : low(j) /\ First(X, j) <= First(X, i)})
         IN Ok([i \in 1..Len(X) |->
                  IF low(i) /\ below(i) <= MaxOutliers(Len(X), contamination)
                  THEN -1 ELSE 1])

\* ---- sklearn.cluster.KMeans ----------------------------------------------
\* Raises when n_clusters < 1 or when there are fewer samples than clusters
\* (fewer DISTINCT samples than clusters is only a ConvergenceWarning).
\* Otherwise labels_ has one entry in [0, n_clusters) per row, equal rows the
\* same label, cluster_centers_ has one centroid per cluster (the mean of its members; a
\* cluster without members sits on a data row) and inertia_ is the sum of
\* the squared distances of the rows to their centroid.
KMeans_labels(P, n_clusters, r) ==
    [i \in 1..Len(P) |-> (r \div Pow(n_clusters, First(P, i) - 1)) % n_clusters]

KMeans_centers(P, n_clusters, labels) ==
    [c \in 0..(n_clusters - 1) |->
        LET M == {i \in 1..Len(P) : labels[i] = c}
        IN IF M = {} THEN Centroid(P, {(c % Len(P)) + 1}) ELSE Centroid(P, M)]

KMeans_inertia(P, labels, centers) ==
    SumOver([i \in 1..Len(P) |-> SqDist(P[i], centers[labels[i]])], 1..Len(P))

KMeans_fit(P, n_clusters, r) ==
    IF n_clusters < 1
    THEN Raise("InvalidParameterError",
               [text |-> "n_clusters must be an int in the range [1, inf)", got |-> n_clusters])
    ELSE IF Len(P) < n_clusters
    THEN Raise("ValueError",
               [text |-> "n_samples should be >= n_clusters", n_samples |-> Len(P), n_clusters |-> n_clusters])
    ELSE LET labels == KMeans_labels(P, n_clusters, r)
             centers == KMeans_centers(P, n_clusters, labels)
         IN Ok([labels_ |-> labels,
                cluster_centers_ |-> centers,
                inertia_ |-> KMeans_inertia(P, labels, centers)])

\* ---- enhanced_kmeans.py: class EnhancedKMeans ----------------------------
\* __init__: the parameters, and the three attributes fit populates
EnhancedKMeans(n_clusters, contamination, random_state) ==
    [n_clusters |-> n_clusters,
     contamination |-> contamination,
     random_state |-> random_state,
     labels_ |-> None,
     cluster_centers_ |-> None,
     inertia_ |-> None]

\* inlier_mask = outlier_preds == 1
InlierMask(outlier_preds) == [i \in DOMAIN outlier_preds |-> outlier_preds[i] = 1]

\* a slip: the cluster labels written to the first positions
FinalLabelsFront(inlier_mask, kmeans_labels) ==
    [i \in DOMAIN inlier_mask |->
        IF i <= Len(kmeans_labels) THEN kmeans_labels[i] ELSE -1]

\* np.full(n, -1) followed by final_labels[inlier_mask] = kmeans.labels_
RECURSIVE FinalLabels(_, _)
FinalLabels(inlier_mask, kmeans_labels) ==
    IF inlier_mask = <<>> THEN <<>>
    ELSE IF Head(inlier_mask)
         THEN <<Head(kmeans_labels)>> \o FinalLabels(Tail(inlier_mask), Tail(kmeans_labels))
         ELSE <<-1>> \o FinalLabels(Tail(inlier_mask), kmeans_labels)

\* a slip: the clustering fitted on every row
FitInputAll(X, inlier_mask) == X

\* the rows fit hands to self.kmeans.fit
FitInput(X, inlier_mask) == BoolIndex(X, inlier_mask)

\* a slip: the check off by one
NotEnoughInliersLeq(X_cleaned, n_clusters) == Len(X_cleaned) <= n_clusters

\* the check that guards the clustering step
NotEnoughInliers(X_cleaned, n_clusters) == Len(X_cleaned) < n_clusters

NotEnoughMessage(remaining, required) ==
    [text |-> "Not enough data points remained after outlier removal",
     remaining |-> remaining, required |-> required]

\* a slip: the cost of the clustering not copied to the estimator
StoreResultsButCost(self, inlier_mask, kmeans) ==
    [self EXCEPT
        !.cluster_centers_ = Some(kmeans.cluster_centers_),
        !.labels_ = Some(FinalLabels(inlier_mask, kmeans.labels_))]

\* the three assignments that end a successful fit
StoreResults(self, inlier_mask, kmeans) ==
    [self EXCEPT
        !.cluster_centers_ = Some(kmeans.cluster_centers_),
        !.inertia_ = Some(kmeans.inertia_),
        !.labels_ = Some(FinalLabels(inlier_mask, kmeans.labels_))]

\* fit(X) with the entropy r1 of the forest; r2 is drawn by the caller from
\* KMeansEntropy.  The result is the estimator after the call and a record of
\* what the call did.
FitMask(self, X, r1) ==
    LET iso == IsolationForest_fit_predict(X, self.contamination, r1)
    IN IF iso.ok THEN Some(InlierMask(iso.value)) ELSE None

fit(self, X, r1, r2) ==
    LET iso == IsolationForest_fit_predict(X, self.contamination, r1) IN
    IF ~iso.ok
    THEN [self |-> self, X |-> X, outcome |-> iso,
          outlier_preds |-> None, kmeans_fit_args |-> <<>>, kmeans |-> None]
    ELSE
    LET inlier_mask == InlierMask(iso.value)
        X_cleaned == FitInput(X, inlier_mask)
    IN
    IF NotEnoughInliers(X_cleaned, self.n_clusters)
    THEN [self |-> self, X |-> X,
          outcome |-> Raise("ValueError", NotEnoughMessage(Len(X_cleaned), self.n_clusters)),
          outlier_preds |-> Some(iso.value), kmeans_fit_args |-> <<>>, kmeans |-> None]
    ELSE
    LET km == KMeans_fit(X_cleaned, self.n_clusters, r2) IN
    IF ~km.ok
    THEN [self |-> self, X |-> X, outcome |-> km,
          outlier_preds |-> Some(iso.value), kmeans_fit_args |-> <<X_cleaned>>,
          kmeans |-> None]
    ELSE
    LET fitted == StoreResults(self, inlier_mask, km.value)
    IN [self |-> fitted, X |-> X, outcome |-> Ok("self"),
        outlier_preds |-> Some(iso.value), kmeans_fit_args |-> <<X_cleaned>>,
        kmeans |-> Some(km.value)]

\* fit_predict(X): fit, then return labels_
fit_predict(self, X, r1, r2) ==
    LET done == fit(self, X, r1, r2)
    IN IF done.outcome.ok
       THEN [done EXCEPT !.outcome = Ok(done.self.labels_[1])]
       ELSE done

\* the entropy of the clustering step: drawn over the rows it is fitted on
KMeansEntropy(self, X, r1) ==
    LET m == FitMask(self, X, r1)
    IN IF m = None THEN {0} ELSE Entropy(self.random_state, FitInput(X, m[1]))

\* ---- the estimator as a program: construct, then call fit / fit_predict --
\* one-column rows, so that rows repeat and k can exceed the distinct rows
FitRows == {<<0>>, <<1>>, <<2>>}
FitInputs == Matrices(FitRows, MaxRows)
FitContaminations == {10, 50}
FitSeeds == {None, Some(42)}

InitFit ==
    /\ input \in FitInputs
    /\ \E k \in 0..MaxK, c \in FitContaminations, s \in FitSeeds :
          est = EnhancedKMeans(k, c, s)
    /\ call = Idle
    /\ session = Idle
    /\ ret = Idle
    /\ ksel = Idle
    /\ geo = Idle

CallFit(X) ==
    /\ est # Idle
    /\ \E r1 \in Entropy(est.random_state, X) :
       \E r2 \in KMeansEntropy(est, X, r1) :
       \E done \in {fit(est, X, r1, r2)} :
          /\ est' = done.self
          /\ call' = [op |-> "fit"] @@ [f \in DOMAIN done \ {"self"} |-> done[f]]
    /\ UNCHANGED <<input, session, ret, ksel, geo>>

CallFitPredict(X) ==
    /\ est # Idle
    /\ \E r1 \in Entropy(est.random_state, X) :
       \E r2 \in KMeansEntropy(est, X, r1) :
       \E done \in {fit_predict(est, X, r1, r2)} :
          /\ est' = done.self
          /\ call' = [op |-> "fit_predict"] @@ [f \in DOMAIN done \ {"self"} |-> done[f]]
    /\ UNCHANGED <<input, session, ret, ksel, geo>>

NextFit ==
    \/ CallFit(input)
    \/ CallFitPredict(input)

SpecFit == InitFit /\ [][NextFit]_vars

\* ---- DataFrames ----------------------------------------------------------
\* A DataFrame is an object on the heap: its column names and its rows (each
\* row a function from the column names to values).  A session holds
\* references to DataFrames, so that an in-place change of one is seen through
\* every reference to it.
\* A cell is Cell(v), or NaN when the value is missing (None, NaN, NaT).
DataFrame(columns, rows) == [columns |-> columns, rows |-> rows]
NaN == <<>>
Cell(v) == <<v>>
Val(cell) == cell[1]

NewId(heap) == (CHOOSE id \in DOMAIN heap : \A other \in DOMAIN heap : other <= id) + 1

\* df.copy(): a new object with the same contents
DataFrame_copy(heap, df) ==
    [heap |-> heap @@ (NewId(heap) :> heap[df]), df |-> NewId(heap)]

\* df[name] = values, in place
SetColumn(heap, df, name, values) ==
    [heap EXCEPT ![df] =
        DataFrame(heap[df].columns \cup {name},
                  [i \in DOMAIN heap[df].rows |->
                      [c \in heap[df].columns \cup {name} |->
                          IF c = name THEN Cell(values[i]) ELSE heap[df].rows[i][c]]])]

\* df.assign(cluster=labels): a new DataFrame value with the column added
Assign(frame, name, values) ==
    DataFrame(frame.columns \cup {name},
              [i \in DOMAIN frame.rows |->
                  [c \in frame.columns \cup {name} |->
                      IF c = name THEN Cell(values[i]) ELSE frame.rows[i][c]]])

\* df[mask].copy(): a new DataFrame value with the selected rows
SelectRows(frame, keep) == DataFrame(frame.columns, BoolIndex(frame.rows, keep))

\* ---- analysis.py: prepare_data_for_clustering ----------------------------
\* timestamps are whole hours counted from a Monday 00:00
HoursPerDay == 24
DaysPerWeek == 7
Hour(timestamp) == timestamp % HoursPerDay
DayOfWeek(timestamp) == (timestamp \div HoursPerDay) % DaysPerWeek

features == <<"latitude", "longitude", "hour", "day_of_week">>

\* StandardScaler.fit_transform: every column is centred on the mean of the
\* current rows; a column without variance becomes 0.  The value kept is the
\* centred value times the row count (the standardised value times n * sigma),
\* which is an integer.
StandardScaler_fit_transform(X) ==
    [i \in DOMAIN X |->
        [d \in DOMAIN X[i] |->
            Len(X) * X[i][d] - SumOver([j \in DOMAIN X |-> X[j][d]], DOMAIN X)]]

\* a slip: the feature columns written to df itself
WorkingFrameAlias(heap, df) == [heap |-> heap, df |-> df]

\* the object the feature columns are written to: a copy of df
WorkingFrame(heap, df) == DataFrame_copy(heap, df)

prepare_data_for_clustering(heap, df) ==
    LET made == WorkingFrame(heap, df)
        df_copy == made.df
        stamps == [i \in DOMAIN heap[df].rows |-> Val(heap[df].rows[i]["timestamp"])]
        h1 == SetColumn(made.heap, df_copy, "hour", [i \in DOMAIN stamps |-> Hour(stamps[i])])
        h2 == SetColumn(h1, df_copy, "day_of_week",
                        [i \in DOMAIN stamps |-> DayOfWeek(stamps[i])])
        X == [i \in DOMAIN h2[df_copy].rows |->
                 [d \in DOMAIN features |-> Val(h2[df_copy].rows[i][features[d]])]]
    IN [heap |-> h2, X_scaled |-> StandardScaler_fit_transform(X), df_copy |-> df_copy]

\* ---- sklearn.metrics: silhouette_score, davies_bouldin_score -------------
\* Both raise unless X and labels have the same length and the number of
\* distinct labels is between 2 and n_samples - 1.  The score itself is kept
\* as the term it is computed from.
RandomState == 42

Score(fn, X, labels) ==
    IF Len(X) # Len(labels)
    THEN Raise("ValueError", [text |-> "Found input variables with inconsistent numbers of samples",
                              n_X |-> Len(X), n_labels |-> Len(labels)])
    ELSE IF Cardinality(Range(labels)) < 2 \/ Cardinality(Range(labels)) > Len(X) - 1
    THEN Raise("ValueError", [text |-> "Number of labels is invalid",
                              n_labels |-> Cardinality(Range(labels)), n_samples |-> Len(X)])
    ELSE Ok([fn |-> fn, X |-> X, labels |-> labels])

\* the three metrics of a results dict; the first failing score raises
Metrics(inertia, X, labels) ==
    LET sil == Score("silhouette_score", X, labels)
        dbi == Score("davies_bouldin_score", X, labels)
    IN IF ~sil.ok THEN sil
       ELSE IF ~dbi.ok THEN dbi
       ELSE Ok([inertia |-> inertia, silhouette |-> sil.value, dbi |-> dbi.value])

\* ---- analysis.py: run_standard_analysis, run_enhanced_analysis -----------
\* the stream of an estimator built with random_state=42, fitted on P
Seeded(P) == CHOOSE r \in Entropy(Some(RandomState), P) : TRUE

\* the (matrix, labels) pair run_standard_analysis scores
StandardMetricsInput(X_scaled, labels) == [X |-> X_scaled, labels |-> labels]

run_standard_analysis(heap, df, n_clusters) ==
    LET prep == prepare_data_for_clustering(heap, df)
        km == KMeans_fit(prep.X_scaled, n_clusters, Seeded(prep.X_scaled))
    IN
    IF ~km.ok
    THEN [heap |-> prep.heap, outcome |-> km, outlier_preds |-> None,
          kmeans_fit_args |-> <<prep.X_scaled>>, metrics_args |-> <<>>]
    ELSE
    LET scored == StandardMetricsInput(prep.X_scaled, km.value.labels_)
        metrics == Metrics(km.value.inertia_, scored.X, scored.labels)
    IN [heap |-> prep.heap,
        outcome |->
            IF ~metrics.ok THEN metrics
            ELSE Ok([metrics |-> metrics.value,
                     data |-> Assign(prep.heap[prep.df_copy], "cluster", km.value.labels_)]),
        outlier_preds |-> None,
        kmeans_fit_args |-> <<prep.X_scaled>>,
        metrics_args |-> <<scored>>]

\* the rows run_enhanced_analysis clusters: X_scaled[outlier_preds == 1]
EnhancedInput(X_scaled, outlier_preds) == BoolIndex(X_scaled, InlierMask(outlier_preds))

\* a slip: the full matrix scored against the labels of the inliers
EnhancedMetricsInputFull(X_scaled, X_scaled_cleaned, labels) ==
    [X |-> X_scaled, labels |-> labels]

\* the (matrix, labels) pair run_enhanced_analysis scores
EnhancedMetricsInput(X_scaled, X_scaled_cleaned, labels) ==
    [X |-> X_scaled_cleaned, labels |-> labels]

\* (outlier_preds == 1).sum() < n_clusters
TooFewInliers(outlier_preds, n_clusters) ==
    Cardinality({i \in DOMAIN outlier_preds : outlier_preds[i] = 1}) < n_clusters

run_enhanced_analysis(heap, df, n_clusters, contamination) ==
    LET prep == prepare_data_for_clustering(heap, df)
        iso == IsolationForest_fit_predict(prep.X_scaled, contamination, Seeded(prep.X_scaled))
    IN
    IF ~iso.ok
    THEN [heap |-> prep.heap, outcome |-> iso, outlier_preds |-> None,
          kmeans_fit_args |-> <<>>, metrics_args |-> <<>>]
    ELSE IF TooFewInliers(iso.value, n_clusters)
    THEN [heap |-> prep.heap,
          outcome |-> Ok([error |-> NotEnoughMessage(
                              Cardinality({i \in DOMAIN iso.value : iso.value[i] = 1}),
                              n_clusters)]),
          outlier_preds |-> Some(iso.value),
          kmeans_fit_args |-> <<>>, metrics_args |-> <<>>]
    ELSE
    LET df_cleaned == SelectRows(prep.heap[prep.df_copy], InlierMask(iso.value))
        X_scaled_cleaned == EnhancedInput(prep.X_scaled, iso.value)
        km == KMeans_fit(X_scaled_cleaned, n_clusters, Seeded(X_scaled_cleaned))
    IN
    IF ~km.ok
    THEN [heap |-> prep.heap, outcome |-> km, outlier_preds |-> Some(iso.value),
          kmeans_fit_args |-> <<X_scaled_cleaned>>, metrics_args |-> <<>>]
    ELSE
    LET scored == EnhancedMetricsInput(prep.X_scaled, X_scaled_cleaned, km.value.labels_)
        metrics == Metrics(km.value.inertia_, scored.X, scored.labels)
    IN [heap |-> prep.heap,
        outcome |->
            IF ~metrics.ok THEN metrics
            ELSE Ok([metrics |-> metrics.value,
                     data |-> Assign(df_cleaned, "cluster", km.value.labels_)]),
        outlier_preds |-> Some(iso.value),
        kmeans_fit_args |-> <<X_scaled_cleaned>>,
        metrics_args |-> <<scored>>]

\* ---- app.py: the prepared table of a session and the two runs on it ------
\* the geocoder resolves a location name to its coordinates
Latitude(location) == IF location = "A" THEN 0 ELSE 1
Longitude(location) == IF location = "A" THEN 1 ELSE 0

GeocodedColumns == {"location", "timestamp", "latitude", "longitude"}
\* two places, and two timestamps that differ in hour and in day of week
Events == {<<"A", 0>>, <<"A", 25>>, <<"B", 0>>}
GeocodedRows ==
    {[c \in GeocodedColumns |->
        CASE c = "location" -> Cell(e[1])
          [] c = "timestamp" -> Cell(e[2])
          [] c = "latitude" -> Cell(Latitude(e[1]))
          [] c = "longitude" -> Cell(Longitude(e[1]))] : e \in Events}

GeocodedTables ==
    {DataFrame(GeocodedColumns, rows) : rows \in Matrices(GeocodedRows, MaxTableRows) \ {<<>>}}

\* the mapping step: each run gets its own copy of the geocoded table
StoreGeocoded(geocoded_data) ==
    LET h0 == (1 :> geocoded_data)
        std == DataFrame_copy(h0, 1)
        enh == DataFrame_copy(std.heap, 1)
    IN [heap |-> [id \in {std.df, enh.df} |-> enh.heap[id]],
        data_for_standard |-> std.df,
        data_for_enhanced |-> enh.df]

\* the objects a session still refers to when a run has returned
Retained(heap, s) == [id \in DOMAIN s.heap |-> heap[id]]

\* the slider starts at 2; 10 % is the default outlier percentage and 50 % the
\* largest the detector accepts
SliderMin == 2
NClusters == SliderMin..(MaxTableRows + 1)
Contaminations == {10, 50}

InitAnalysis ==
    /\ \E t \in GeocodedTables : session = StoreGeocoded(t)
    /\ ret = [op |-> "none"]
    /\ input = Idle
    /\ est = Idle
    /\ call = Idle
    /\ ksel = Idle
    /\ geo = Idle

RunStandard(n_clusters) ==
    /\ session # Idle
    /\ \E done \in {run_standard_analysis(session.heap, session.data_for_standard, n_clusters)} :
          /\ session' = [session EXCEPT !.heap = Retained(done.heap, session)]
          /\ ret' = [op |-> "run_standard_analysis", n_clusters |-> n_clusters,
                     contamination |-> None]
                    @@ [f \in DOMAIN done \ {"heap"} |-> done[f]]
    /\ UNCHANGED <<input, est, call, ksel, geo>>

RunEnhanced(n_clusters, contamination) ==
    /\ session # Idle
    /\ \E done \in {run_enhanced_analysis(session.heap, session.data_for_enhanced,
                                          n_clusters, contamination)} :
          /\ session' = [session EXCEPT !.heap = Retained(done.heap, session)]
          /\ ret' = [op |-> "run_enhanced_analysis", n_clusters |-> n_clusters,
                     contamination |-> Some(contamination)]
                    @@ [f \in DOMAIN done \ {"heap"} |-> done[f]]
    /\ UNCHANGED <<input, est, call, ksel, geo>>

NextAnalysis ==
    \/ \E k \in NClusters : RunStandard(k)
    \/ \E k \in NClusters, c \in Contaminations : RunEnhanced(k, c)

SpecAnalysis == InitAnalysis /\ [][NextAnalysis]_vars

\* ---- analysis.py: find_optimal_k ----------------------------------------
DefaultK == 4

\* a slip: the upper end of k_range taken as a candidate
KRangeInclusive(k_range) ==
    [j \in 1..(IF k_range[2] >= k_range[1] THEN k_range[2] - k_range[1] + 1 ELSE 0) |->
        k_range[1] + j - 1]

\* ks = range(k_range[0], k_range[1]), as the list of its values
KRange(k_range) ==
    [j \in 1..(IF k_range[2] > k_range[1] THEN k_range[2] - k_range[1] ELSE 0) |->
        k_range[1] + j - 1]

\* kneed.KneeLocator(list(ks), inertias, curve='convex', direction='decreasing'):
\* it raises, or its elbow is None or one of the candidates.  Which of them is
\* left open; without candidates it can only raise.
KneeOutcomes(ks) ==
    {Raise("ValueError", [text |-> "KneeLocator"])}
    \cup (IF ks = <<>> THEN {} ELSE {Ok(None)} \cup {Ok(Some(k)) : k \in Range(ks)})

\* a slip: the exception of the knee detection let through
OptimalKUnguarded(knee) ==
    IF ~knee.ok THEN knee
    ELSE IF knee.value = None \/ knee.value = Some(0) THEN Ok(DefaultK) ELSE Ok(knee.value[1])

\* try: optimal_k = kn.elbow if kn.elbow else 4   except Exception: optimal_k = 4
OptimalK(knee) ==
    IF ~knee.ok THEN Ok(DefaultK)
    ELSE IF knee.value = None \/ knee.value = Some(0) THEN Ok(DefaultK) ELSE Ok(knee.value[1])

find_optimal_k(scaled_data, k_range, knee) ==
    LET ks == KRange(k_range)
        fits == [j \in DOMAIN ks |-> KMeans_fit(scaled_data, ks[j], Seeded(scaled_data))]
        failed == {j \in DOMAIN ks : ~fits[j].ok}
    IN IF failed # {}
       THEN LET first == CHOOSE j \in failed : \A i \in failed : j <= i
            IN [outcome |-> fits[first], kmeans_fits |-> SubSeq(ks, 1, first), knee |-> None]
       ELSE LET inertias == [j \in DOMAIN ks |-> fits[j].value.inertia_]
                optimal_k == OptimalK(knee)
            IN [outcome |-> IF optimal_k.ok
                            THEN Ok([inertias |-> inertias, optimal_k |-> optimal_k.value])
                            ELSE optimal_k,
                kmeans_fits |-> ks,
                knee |-> Some(knee)]

\* a matrix with rows, and ranges of positive cluster counts
KRanges == (1..(MaxK + 1)) \X (1..(MaxK + 2))

InitKSel ==
    /\ input \in FitInputs \ {<<>>}
    /\ ksel = [op |-> "none"]
    /\ est = Idle
    /\ call = Idle
    /\ session = Idle
    /\ ret = Idle
    /\ geo = Idle

FindOptimalK(k_range) ==
    /\ ksel # Idle
    /\ \E knee \in KneeOutcomes(KRange(k_range)) :
       \E done \in {find_optimal_k(input, k_range, knee)} :
          ksel' = [op |-> "find_optimal_k", k_range |-> k_range] @@ done
    /\ UNCHANGED <<input, est, call, session, ret, geo>>

NextKSel == \E k_range \in KRanges : FindOptimalK(k_range)

SpecKSel == InitKSel /\ [][NextKSel]_vars

\* what a caller of find_optimal_k gets: the returned pair or the exception.
\* The function writes no log and sets no flag.
Observed(done) == done.outcome

\* sweeps around the default: a matrix of as many rows as the default k, so
\* that k = 4 is a candidate the knee detection can pick
DefaultKInputs == [1..DefaultK -> FitRows]
DefaultKRanges == ((DefaultK - 1)..DefaultK) \X (DefaultK..(DefaultK + 1))

InitKDefault ==
    /\ input \in DefaultKInputs
    /\ ksel = [op |-> "none"]
    /\ est = Idle
    /\ call = Idle
    /\ session = Idle
    /\ ret = Idle
    /\ geo = Idle

NextKDefault == \E k_range \in DefaultKRanges : FindOptimalK(k_range)

SpecKDefault == InitKDefault /\ [][NextKDefault]_vars


\* ---- data_processing.py: geocode_dataframe -------------------------------
\* frame[name] = cells, on a DataFrame value
WithColumn(frame, name, cells) ==
    DataFrame(frame.columns \cup {name},
              [i \in DOMAIN frame.rows |->
                  [c \in frame.columns \cup {name} |->
                      IF c = name THEN cells[i] ELSE frame.rows[i][c]]])

\* frame[columns].copy()
Project(frame, columns) ==
    DataFrame(columns, [i \in DOMAIN frame.rows |-> [c \in columns |-> frame.rows[i][c]]])

\* frame.dropna(subset=columns)
DropNa(frame, columns) ==
    SelectRows(frame, [i \in DOMAIN frame.rows |-> \A c \in columns : frame.rows[i][c] # NaN])

\* frame.rename(columns={old: new})
Rename(frame, old, new) ==
    DataFrame((frame.columns \ {old}) \cup {new},
              [i \in DOMAIN frame.rows |->
                  [c \in (frame.columns \ {old}) \cup {new} |->
                      IF c = new THEN frame.rows[i][old] ELSE frame.rows[i][c]]])

\* the geocoding service: the coordinates of a place it knows, else None
KnownPlaces == {"A", "B"}
Geocode(loc) ==
    IF loc \in KnownPlaces THEN Some(<<Latitude(loc), Longitude(loc)>>) ELSE None

\* pd.to_datetime(cell, dayfirst=True, errors='coerce'): the hours since
\* Monday 00:00 of a text that is a date, NaT for anything else
ToDatetime(cell) ==
    IF cell = Cell("Mon 00:00") THEN Cell(0)
    ELSE IF cell = Cell("Tue 01:00") THEN Cell(25)
    ELSE NaN

\* a slip: an unmapped location given placeholder coordinates
CoordinateOrZero(location_dict, loc_cell, axis) ==
    IF location_dict[loc_cell] = None THEN Cell(0) ELSE Cell(location_dict[loc_cell][1][axis])

\* location_dict.get(loc, (None, None))[axis]
Coordinate(location_dict, loc_cell, axis) ==
    IF location_dict[loc_cell] = None THEN NaN ELSE Cell(location_dict[loc_cell][1][axis])

\* The result is None or Some(final_df).  service_up tells whether the
\* geocoding service answers; when it does not the lookup raises and the
\* except branch returns None.  Mapping one column to two roles makes a later
\* step raise, which ends in the same branch.
geocode_dataframe(df_processed, loc_col, time_col, region_col, service_up) ==
    LET columns_to_keep == {loc_col, time_col} \cup Range(region_col)
        df_clean == DropNa(Project(df_processed, columns_to_keep), {loc_col, time_col})
    IN
    IF Len(df_clean.rows) = 0 THEN None
    ELSE IF loc_col = time_col \/ loc_col \in Range(region_col) \/ time_col \in Range(region_col)
    THEN None
    ELSE IF ~service_up THEN None
    ELSE
    LET unique_locations == {df_clean.rows[i][loc_col] : i \in DOMAIN df_clean.rows}
        location_dict == [loc \in unique_locations |-> Geocode(Val(loc))]
        with_lat == WithColumn(df_clean, "latitude",
                        [i \in DOMAIN df_clean.rows |->
                            Coordinate(location_dict, df_clean.rows[i][loc_col], 1)])
        with_lon == WithColumn(with_lat, "longitude",
                        [i \in DOMAIN df_clean.rows |->
                            Coordinate(location_dict, df_clean.rows[i][loc_col], 2)])
        mapped == DropNa(with_lon, {"latitude", "longitude"})
    IN
    IF Len(mapped.rows) = 0 THEN None
    ELSE
    LET stamped == WithColumn(mapped, "timestamp",
                       [i \in DOMAIN mapped.rows |-> ToDatetime(mapped.rows[i][time_col])])
        parsed == DropNa(stamped, {"timestamp"})
        final_df == Rename(parsed, loc_col, "location")
    IN IF region_col # None /\ region_col[1] \in final_df.columns
       THEN Some(Rename(final_df, region_col[1], "region"))
       ELSE Some(final_df)

\* the uploaded table: a place, a time text and a region per row
RawColumns == {"place", "when", "area"}
RawRows ==
    {[c \in RawColumns |->
        CASE c = "place" -> place
          [] c = "when" -> when
          [] c = "area" -> Cell("R")] :
        place \in {NaN, Cell("A"), Cell("B"), Cell("C")},
        when \in {NaN, Cell("not a date"), Cell("Mon 00:00"), Cell("Tue 01:00")}}
RawTables == {DataFrame(RawColumns, rows) : rows \in Matrices(RawRows, MaxRawRows)}

InitGeo ==
    /\ input \in RawTables
    /\ geo = [op |-> "none"]
    /\ est = Idle
    /\ call = Idle
    /\ session = Idle
    /\ ret = Idle
    /\ ksel = Idle

\* One call that runs the body.  The st.cache_data memo is left out: a hit
\* returns what an earlier run of the body on the same arguments returned.
GeocodeDataframe(loc_col, time_col, region_col, service_up) ==
    /\ geo # Idle
    /\ geo' = [op |-> "geocode_dataframe", loc_col |-> loc_col, time_col |-> time_col,
               region_col |-> region_col,
               returned |-> geocode_dataframe(input, loc_col, time_col, region_col, service_up)]
    /\ UNCHANGED <<input, est, call, session, ret, ksel>>

NextGeo ==
    \E loc_col \in {"place", "when"}, time_col \in {"place", "when"},
       region_col \in {None, Some("area")}, service_up \in BOOLEAN :
        GeocodeDataframe(loc_col, time_col, region_col, service_up)

SpecGeo == InitGeo /\ [][NextGeo]_vars


\* ---- data_processing.py: auto_detect_columns -----------------------------
\* The characters of the names and keywords in use (a string cannot be taken
\* apart, so each is spelled out).
Chars(name) ==
    CASE name = "location" -> <<"l", "o", "c", "a", "t", "i", "o", "n">>
      [] name = "loc" -> <<"l", "o", "c">>
      [] name = "city" -> <<"c", "i", "t", "y">>
      [] name = "City" -> <<"C", "i", "t", "y">>
      [] name = "address" -> <<"a", "d", "d", "r", "e", "s", "s">>
      [] name = "area" -> <<"a", "r", "e", "a">>
      [] name = "timestamp" -> <<"t", "i", "m", "e", "s", "t", "a", "m", "p">>
      [] name = "time" -> <<"t", "i", "m", "e">>
      [] name = "Time" -> <<"T", "i", "m", "e">>
      [] name = "date" -> <<"d", "a", "t", "e">>
      [] name = "region" -> <<"r", "e", "g", "i", "o", "n">>
      [] name = "province" -> <<"p", "r", "o", "v", "i", "n", "c", "e">>
      [] name = "label" -> <<"l", "a", "b", "e", "l">>
      [] name = "credible" -> <<"c", "r", "e", "d", "i", "b", "l", "e">>
      [] name = "credibility" -> <<"c", "r", "e", "d", "i", "b", "i", "l", "i", "t", "y">>
      [] name = "type" -> <<"t", "y", "p", "e">>
      [] name = "loc_time" -> <<"l", "o", "c", "_", "t", "i", "m", "e">>
      [] name = "id" -> <<"i", "d">>
      [] name = "Fake" -> <<"F", "a", "k", "e">>
      [] name = "fake" -> <<"f", "a", "k", "e">>
      [] name = "real" -> <<"r", "e", "a", "l">>
      [] name = "not credible" -> <<"n", "o", "t", " ", "c", "r", "e", "d", "i", "b", "l", "e">>

\* str.lower(), on characters
Lower(chars) ==
    [i \in DOMAIN chars |->
        CASE chars[i] = "C" -> "c"
          [] chars[i] = "T" -> "t"
          [] chars[i] = "F" -> "f"
          [] OTHER -> chars[i]]

\* keyword in text
Contains(keyword, text) ==
    \E i \in 1..(Len(text) - Len(keyword) + 1) :
        SubSeq(text, i, i + Len(keyword) - 1) = keyword

\* col_keywords, in the order of the dict
Roles == <<"location", "timestamp", "region", "label">>
col_keywords ==
    [location |-> <<"location", "loc", "city", "address", "area">>,
     timestamp |-> <<"timestamp", "time", "date">>,
     region |-> <<"region", "province">>,
     label |-> <<"label", "credible", "credibility", "type">>]

\* keyword in col.lower()
Matches(keyword, col) == Contains(Chars(keyword), Lower(Chars(col)))

\* the smallest number of a non-empty set
Least(S) == CHOOSE i \in S : \A j \in S : i <= j

\* next((col for col in remaining_columns if keyword in col.lower()), None),
\* as a position in remaining_columns
FirstMatch(keyword, remaining_columns) ==
    LET hits == {i \in DOMAIN remaining_columns : Matches(keyword, remaining_columns[i])}
    IN IF hits = {} THEN None ELSE Some(Least(hits))

\* a slip: the matched column left in the list
RemoveNothing(remaining_columns, match) == remaining_columns

\* remaining_columns.remove(match): the first element equal to match goes
Remove(remaining_columns, match) ==
    LET at == Least({i \in DOMAIN remaining_columns : remaining_columns[i] = match})
    IN SubSeq(remaining_columns, 1, at - 1)
          \o SubSeq(remaining_columns, at + 1, Len(remaining_columns))

\* the inner loop for one role: the first keyword with a match decides
DetectRole(keywords, remaining_columns) ==
    LET found == {j \in DOMAIN keywords : FirstMatch(keywords[j], remaining_columns) # None}
    IN IF found = {} THEN None
       ELSE Some(remaining_columns[FirstMatch(keywords[Least(found)], remaining_columns)[1]])

\* the outer loop from role number r on
RECURSIVE DetectFrom(_, _, _)
DetectFrom(r, remaining_columns, detected_cols) ==
    IF r > Len(Roles) THEN detected_cols
    ELSE LET match == DetectRole(col_keywords[Roles[r]], remaining_columns)
         IN IF match = None
            THEN DetectFrom(r + 1, remaining_columns, detected_cols)
            ELSE DetectFrom(r + 1, Remove(remaining_columns, match[1]),
                            [detected_cols EXCEPT ![Roles[r]] = match])

auto_detect_columns(columns) ==
    DetectFrom(1, columns, [role \in Range(Roles) |-> None])

\* column names that meet the keywords in several ways
ColumnNames == {"loc", "location", "City", "Time", "date", "loc_time", "region", "label", "id"}
ColumnLists == UNION {[1..n -> ColumnNames] : n \in 0..MaxColumns}

InitDetect ==
    /\ input \in ColumnLists
    /\ ret = [op |-> "none"]
    /\ est = Idle
    /\ call = Idle
    /\ session = Idle
    /\ ksel = Idle
    /\ geo = Idle

AutoDetectColumns ==
    /\ ret # Idle
    /\ ret' = [op |-> "auto_detect_columns", detected_cols |-> auto_detect_columns(input)]
    /\ UNCHANGED <<input, est, call, session, ksel, geo>>

NextDetect == AutoDetectColumns

SpecDetect == InitDetect /\ [][NextDetect]_vars

\* ---- data_processing.py: load_and_clean_data, filter_for_fake_news -------
\* DataFrame.empty
Empty(frame) == frame.columns = {} \/ Len(frame.rows) = 0

\* the columns of a table in file order
ColumnOrder == <<"Unnamed: 0", "City", "date", "label">>
ColumnList(frame) == SelectSeq(ColumnOrder, LAMBDA c : c \in frame.columns)

\* col.startswith('Unnamed')
StartsWithUnnamed(col) == col = "Unnamed: 0"

\* An uploaded file is None when read_csv cannot read it, else Some(table).
load_and_clean_data(uploaded_file) ==
    IF uploaded_file = None THEN DataFrame({}, <<>>)
    ELSE Project(uploaded_file[1],
                 {c \in uploaded_file[1].columns : ~StartsWithUnnamed(c)})

\* astype(str).str.contains(filter_text, case=False, na=False), for plain text
TextContains(cell, filter_text) ==
    Contains(Lower(Chars(filter_text)), Lower(Chars(Val(cell))))

\* None, or Some(table)
filter_for_fake_news(df, label_col, filter_text) ==
    IF label_col \notin df.columns THEN Some(df)
    ELSE LET df_filtered ==
                 SelectRows(df, [i \in DOMAIN df.rows |->
                                    TextContains(df.rows[i][label_col], filter_text)])
         IN IF Len(df_filtered.rows) = 0 THEN None ELSE Some(df_filtered)

\* ---- app.py: the session and the steps of the app ------------------------
SliderDefault == 4
ContaminationDefault == 10

\* lines 19-35
NewSession ==
    [step |-> "upload",
     data |-> None,
     detected_cols |-> None,
     data_for_standard |-> None,
     data_for_enhanced |-> None,
     standard_results |-> None,
     enhanced_results |-> None,
     region_col |-> None,
     uploaded_file |-> None,
     k_clusters |-> None,
     heap |-> <<>>]

\* the files a user uploads: a mapped place with a date, another place with
\* another date and label, and a row whose date is no date
UploadRows ==
    {[c \in Range(ColumnOrder) |->
        CASE c = "Unnamed: 0" -> Cell(0)
          [] c = "City" -> Cell(e[1])
          [] c = "date" -> Cell(e[2])
          [] c = "label" -> Cell(e[3])] :
        e \in {<<"A", "Mon 00:00", "Fake">>, <<"B", "Tue 01:00", "real">>,
               <<"A", "not a date", "Fake">>}}
UploadedFiles ==
    {None} \cup
    {Some(DataFrame(Range(ColumnOrder), rows)) : rows \in Matrices(UploadRows, MaxUploadRows)}

\* the buttons of the upload step are drawn when the file has rows
UploadReady(s) ==
    /\ s.step = "upload"
    /\ s.uploaded_file # None
    /\ ~Empty(load_and_clean_data(s.uploaded_file[1]))

\* the first run of the mapping step fills detected_cols when it is empty
EnterMapping(s, data) ==
    [s EXCEPT !.step = "mapping",
              !.data = Some(data),
              !.uploaded_file = None,
              !.detected_cols =
                  IF s.detected_cols = None
                  THEN Some(auto_detect_columns(ColumnList(data)))
                  ELSE s.detected_cols]

\* filtered_data is not None and not filtered_data.empty
FilterUsable(filtered_data) == filtered_data # None /\ ~Empty(filtered_data[1])

\* a slip: an empty geocoded table let through
GeocodedUsableIfNotNone(geocoded_data) == geocoded_data # None

\* geocoded_data is not None and not geocoded_data.empty
GeocodedUsable(geocoded_data) == geocoded_data # None /\ ~Empty(geocoded_data[1])

\* a slip: the enhanced run offered from the start
EnhancedOfferedAlways(s) == s.step = "analysis"

\* if st.session_state.standard_results: the enhanced part is drawn
EnhancedOffered(s) == s.step = "analysis" /\ s.standard_results # None

\* Part C is drawn and shows the metrics of both runs
ComparisonShown(s) ==
    /\ s.step = "analysis"
    /\ s.standard_results # None
    /\ s.enhanced_results # None
    /\ "error" \notin DOMAIN s.enhanced_results[1]

\* what the last press did, and the K each stored result was computed with
NoEvent == [op |-> "none"]
InitApp ==
    /\ session = NewSession
    /\ ret = [event |-> NoEvent, standard_k |-> None, enhanced_k |-> None]
    /\ input = Idle
    /\ est = Idle
    /\ call = Idle
    /\ ksel = Idle
    /\ geo = Idle

AppRunning == session # Idle /\ "step" \in DOMAIN session

\* a file put in the uploader: the script loads it and keeps it when it has rows
UploadFile(uploaded_file) ==
    /\ AppRunning
    /\ session.step = "upload"
    /\ LET raw_data == load_and_clean_data(uploaded_file)
       IN session' = [session EXCEPT
                         !.uploaded_file = Some(uploaded_file),
                         !.data = IF Empty(raw_data) THEN session.data ELSE Some(raw_data)]
    /\ ret' = [ret EXCEPT !.event = [op |-> "upload"]]
    /\ UNCHANGED <<input, est, call, ksel, geo>>

\* "Proceed to Mapping"
ProceedToMapping ==
    /\ AppRunning
    /\ UploadReady(session)
    /\ session' = EnterMapping(session, session.data[1])
    /\ ret' = [ret EXCEPT !.event = [op |-> "proceed"]]
    /\ UNCHANGED <<input, est, call, ksel, geo>>

\* "Apply Filter and Proceed to Mapping"
ApplyFilter(label_col, filter_text) ==
    /\ AppRunning
    /\ UploadReady(session)
    /\ label_col \in session.data[1].columns
    /\ LET filtered_data == filter_for_fake_news(session.data[1], label_col, filter_text)
       IN /\ session' = IF FilterUsable(filtered_data)
                        THEN EnterMapping(session, filtered_data[1])
                        ELSE session
          /\ ret' = [ret EXCEPT !.event = [op |-> "apply_filter", filtered_data |-> filtered_data]]
    /\ UNCHANGED <<input, est, call, ksel, geo>>

\* "Confirm Columns & Prepare Data"; entering the analysis step draws the
\* slider at its default
ConfirmColumns(loc_col, time_col, region_col, service_up) ==
    /\ AppRunning
    /\ session.step = "mapping"
    /\ {loc_col, time_col} \cup Range(region_col) \subseteq session.data[1].columns
    /\ LET geocoded_data ==
               geocode_dataframe(session.data[1], loc_col, time_col, region_col, service_up)
       IN /\ session' =
                 IF GeocodedUsable(geocoded_data)
                 THEN LET stored == StoreGeocoded(geocoded_data[1])
                      IN [session EXCEPT
                             !.heap = stored.heap,
                             !.data_for_standard = Some(stored.data_for_standard),
                             !.data_for_enhanced = Some(stored.data_for_enhanced),
                             !.region_col = IF region_col # None THEN Some("region") ELSE None,
                             !.step = "analysis",
                             !.k_clusters = Some(SliderDefault)]
                 ELSE session
          /\ ret' = [ret EXCEPT !.event = [op |-> "confirm", geocoded_data |-> geocoded_data]]
    /\ UNCHANGED <<input, est, call, ksel, geo>>

\* the slider moved
MoveSlider(n_clusters) ==
    /\ AppRunning
    /\ session.step = "analysis"
    /\ session.k_clusters # Some(n_clusters)
    /\ session' = [session EXCEPT !.k_clusters = Some(n_clusters)]
    /\ ret' = [ret EXCEPT !.event = [op |-> "slider"]]
    /\ UNCHANGED <<input, est, call, ksel, geo>>

\* "Run Standard Analysis": an exception in the run leaves the session as it is
PressRunStandard ==
    /\ AppRunning
    /\ session.step = "analysis"
    /\ \E done \in {run_standard_analysis(session.heap, session.data_for_standard[1],
                                          session.k_clusters[1])} :
          /\ session' = [session EXCEPT
                            !.heap = Retained(done.heap, session),
                            !.standard_results =
                                IF done.outcome.ok THEN Some(done.outcome.value) ELSE @]
          /\ ret' = [ret EXCEPT
                        !.event = [op |-> "run_standard", n_clusters |-> session.k_clusters[1]],
                        !.standard_k = IF done.outcome.ok THEN session.k_clusters ELSE @]
    /\ UNCHANGED <<input, est, call, ksel, geo>>

\* "Run Enhanced Analysis", with the outlier percentage picked in the sidebar
PressRunEnhanced(contamination) ==
    /\ AppRunning
    /\ EnhancedOffered(session)
    /\ \E done \in {run_enhanced_analysis(session.heap, session.data_for_enhanced[1],
                                          session.k_clusters[1], contamination)} :
          /\ session' = [session EXCEPT
                            !.heap = Retained(done.heap, session),
                            !.enhanced_results =
                                IF done.outcome.ok THEN Some(done.outcome.value) ELSE @]
          /\ ret' = [ret EXCEPT
                        !.event = [op |-> "run_enhanced", n_clusters |-> session.k_clusters[1]],
                        !.enhanced_k = IF done.outcome.ok THEN session.k_clusters ELSE @]
    /\ UNCHANGED <<input, est, call, ksel, geo>>

SliderValues == SliderMin..SliderDefault
AppContaminations == {ContaminationDefault, 25}

NextApp ==
    \/ \E f \in UploadedFiles : UploadFile(f)
    \/ ProceedToMapping
    \/ \E filter_text \in {"not credible", "fake"} : ApplyFilter("label", filter_text)
    \/ \E loc_col \in {"City", "date"}, time_col \in {"City", "date"},
          region_col \in {None, Some("label")}, service_up \in BOOLEAN :
           ConfirmColumns(loc_col, time_col, region_col, service_up)
    \/ \E k \in SliderValues : MoveSlider(k)
    \/ PressRunStandard
    \/ \E c \in AppContaminations : PressRunEnhanced(c)

SpecApp == InitApp /\ [][NextApp]_vars

\* the estimator and the enhanced run side by side: a program uses one or the
\* other
SpecEnhanced == (InitFit \/ InitAnalysis) /\ [][NextFit \/ NextAnalysis]_vars

\* ---- properties of EnhancedKMeans.fit ------------------------------------
FitCalled == call # Idle
FitSucceeded == FitCalled /\ call.outcome.ok
\* the position among the inliers of row i
InlierRank(outlier_preds, i) == Cardinality({j \in 1..i : outlier_preds[j] = 1})

\* C1: after a successful fit, labels_ has one entry per row of X in the
\* original order; a row the detector flagged carries -1 and the i-th inlier
\* row carries the i-th label of the clustering, a value in [0, n_clusters).
C1_LabelsFollowRows ==
    FitSucceeded =>
        LET labels == est.labels_[1]
            preds == call.outlier_preds[1]
            km == call.kmeans[1].labels_
        IN /\ Len(labels) = Len(call.X)
           /\ \A i \in 1..Len(call.X) :
                 IF preds[i] = -1 THEN labels[i] = -1
                 ELSE /\ labels[i] = km[InlierRank(preds, i)]
                      /\ labels[i] \in 0..(est.n_clusters - 1)

\* a successful fit that flagged a row standing before an inlier and put the
\* inliers in two clusters
C1_Witness ==
    /\ FitSucceeded
    /\ \E i, j \in 1..Len(call.X) :
          i < j /\ call.outlier_preds[1][i] = -1 /\ call.outlier_preds[1][j] = 1
    /\ Cardinality(Range(call.kmeans[1].labels_)) = 2

\* the rows of X that labels assigns to cluster c
Members(labels, c) == {i \in DOMAIN labels : labels[i] = c}

\* centroids and cost as a function of the labelled rows alone
CentersOverLabelled(X, labels, centers) ==
    \A c \in DOMAIN centers :
        Members(labels, c) # {} => centers[c] = Centroid(X, Members(labels, c))

CostOverLabelled(X, labels, centers) ==
    SumOver([i \in DOMAIN labels |->
                IF labels[i] = -1 THEN 0 ELSE SqDist(X[i], centers[labels[i]])],
            DOMAIN labels)

\* the scaled matrix of the table the enhanced run is given
EnhancedScaled ==
    prepare_data_for_clustering(session.heap, session.data_for_enhanced).X_scaled

EnhancedClustered ==
    /\ ret # Idle
    /\ ret.op = "run_enhanced_analysis"
    /\ ret.outcome.ok
    /\ "metrics" \in DOMAIN ret.outcome.value

\* C2: in the enhanced path the centroids are the means of the inlier rows of
\* each cluster and the cost is the sum over the inlier rows only of the
\* squared distance to their centroid: exactly what the clustering of the
\* inlier subset produced, for fit and for run_enhanced_analysis.
C2_CostFromInliersOnly ==
    /\ FitSucceeded =>
          /\ est.cluster_centers_[1] = call.kmeans[1].cluster_centers_
          /\ est.inertia_[1] = call.kmeans[1].inertia_
          /\ call.kmeans_fit_args = <<BoolIndex(call.X, InlierMask(call.outlier_preds[1]))>>
          /\ CentersOverLabelled(call.X, est.labels_[1], est.cluster_centers_[1])
          /\ est.inertia_[1] =
                CostOverLabelled(call.X, est.labels_[1], est.cluster_centers_[1])
    /\ EnhancedClustered =>
          LET X == EnhancedScaled
              preds == ret.outlier_preds[1]
              labels == [i \in DOMAIN preds |->
                            IF preds[i] = -1 THEN -1
                            ELSE Val(ret.outcome.value.data.rows[InlierRank(preds, i)]["cluster"])]
              centers == [c \in Range(labels) \ {-1} |-> Centroid(X, Members(labels, c))]
          IN /\ Len(ret.outcome.value.data.rows) = InlierRank(preds, Len(preds))
             /\ ret.outcome.value.metrics.inertia = CostOverLabelled(X, labels, centers)

\* a fit and an enhanced run that dropped an outlier lying off the centroids
C2_Witness ==
    \/ /\ FitSucceeded
       /\ \E i \in 1..Len(call.X) :
             /\ call.outlier_preds[1][i] = -1
             /\ \A c \in DOMAIN est.cluster_centers_[1] :
                   SqDist(call.X[i], est.cluster_centers_[1][c]) > 0
    \/ /\ EnhancedClustered
       /\ -1 \in Range(ret.outlier_preds[1])

\* the two forms of the failure: the exception fit raises and the error
\* dict run_enhanced_analysis returns
IsNotEnough(msg) ==
    /\ "text" \in DOMAIN msg
    /\ msg.text = "Not enough data points remained after outlier removal"

FitNotEnough ==
    /\ ~call.outcome.ok
    /\ call.outcome.exc.type = "ValueError"
    /\ IsNotEnough(call.outcome.exc.msg)

EnhancedNotEnough ==
    /\ ret.outcome.ok
    /\ "error" \in DOMAIN ret.outcome.value
    /\ IsNotEnough(ret.outcome.value.error)

Inliers(outlier_preds) == Cardinality({i \in DOMAIN outlier_preds : outlier_preds[i] = 1})

\* C3: once the detector has run, the enhanced engine fails with the
\* not-enough-inliers error exactly when fewer than k inliers are left; then
\* no clustering has been run and the message carries the number of inliers
\* left and the number required.
C3_InsufficientInliers ==
    /\ (FitCalled /\ call.outlier_preds # None) =>
          /\ FitNotEnough <=> Inliers(call.outlier_preds[1]) < est.n_clusters
          /\ FitNotEnough =>
                /\ call.kmeans_fit_args = <<>>
                /\ call.outcome.exc.msg.remaining = Inliers(call.outlier_preds[1])
                /\ call.outcome.exc.msg.required = est.n_clusters
    /\ (ret # Idle /\ ret.op = "run_enhanced_analysis" /\ ret.outlier_preds # None) =>
          /\ EnhancedNotEnough <=> Inliers(ret.outlier_preds[1]) < ret.n_clusters
          /\ EnhancedNotEnough =>
                /\ ret.kmeans_fit_args = <<>>
                /\ ret.outcome.value.error.remaining = Inliers(ret.outlier_preds[1])
                /\ ret.outcome.value.error.required = ret.n_clusters

\* the failure caused by the outlier removal: X had k rows or more
C3_Witness ==
    \/ /\ FitCalled /\ call.outlier_preds # None /\ FitNotEnough
       /\ Len(call.X) >= est.n_clusters
    \/ /\ ret # Idle /\ ret.op = "run_enhanced_analysis" /\ ret.outlier_preds # None
       /\ EnhancedNotEnough
       /\ Len(ret.outlier_preds[1]) >= ret.n_clusters

\* ---- properties of find_optimal_k ----------------------------------------
Selected == ksel # Idle /\ ksel.op = "find_optimal_k"
SelectedOk == Selected /\ ksel.outcome.ok

\* C4 as stated: on return there is one cost for every k from k_range[0] up to
\* and including k_range[1].
C4_InclusiveRange ==
    (SelectedOk /\ ksel.k_range[1] <= ksel.k_range[2]) =>
        /\ Len(ksel.outcome.value.inertias) = ksel.k_range[2] - ksel.k_range[1] + 1
        /\ Range(ksel.kmeans_fits) = ksel.k_range[1]..ksel.k_range[2]

\* C4 (amended): on return the clustering has been run once for each k with
\* k_range[0] <= k < k_range[1], in increasing order, and the costs are the
\* costs of these runs in that order: max(0, k_range[1] - k_range[0]) entries.
C4_HalfOpenRange ==
    SelectedOk =>
        LET k0 == ksel.k_range[1]
            n == IF ksel.k_range[2] > k0 THEN ksel.k_range[2] - k0 ELSE 0
        IN /\ ksel.kmeans_fits = [j \in 1..n |-> k0 + j - 1]
           /\ Len(ksel.outcome.value.inertias) = n
           /\ \A j \in 1..n :
                 ksel.outcome.value.inertias[j]
                    = KMeans_fit(input, k0 + j - 1, Seeded(input)).value.inertia_

\* a sweep over two candidates or more that returned
C4_Witness == SelectedOk /\ Len(ksel.outcome.value.inertias) >= 2

\* C5 as stated: no call of find_optimal_k raises.
C5_NeverRaises == Selected => ksel.outcome.ok

\* C5 (amended): when every clustering run of the sweep succeeds (every
\* candidate k has 1 <= k <= number of rows), the call returns normally, and
\* with optimal_k = 4 whenever the knee detection raised or found no elbow.
C5_KneeFailureFallsBack ==
    (Selected /\ \A k \in Range(KRange(ksel.k_range)) : 1 <= k /\ k <= Len(input)) =>
        /\ ksel.outcome.ok
        /\ (~ksel.knee[1].ok \/ ksel.knee[1].value = None)
              => ksel.outcome.value.optimal_k = DefaultK

\* the knee detection raised on a sweep that had candidates, and the call
\* returned 4
C5_Witness ==
    /\ SelectedOk
    /\ ksel.kmeans_fits # <<>>
    /\ ~ksel.knee[1].ok
    /\ ksel.outcome.value.optimal_k = DefaultK

\* ---- properties of the two analysis runs ---------------------------------
Ran(op) == ret # Idle /\ ret.op = op
StandardScaled ==
    prepare_data_for_clustering(session.heap, session.data_for_standard).X_scaled

\* C6: the quality metrics are computed over the matrix and labels of one
\* clustering: in the enhanced run the matrix holds exactly the inlier rows,
\* as many as there are labels, and no label is -1; in the standard run the
\* full matrix goes with one label per row.
C6_MetricsOverClusteredRows ==
    /\ (Ran("run_enhanced_analysis") /\ ret.metrics_args # <<>>) =>
          LET scored == ret.metrics_args[1]
              preds == ret.outlier_preds[1]
          IN /\ Len(scored.X) = Inliers(preds)
             /\ \A i \in DOMAIN preds :
                   preds[i] = 1 => scored.X[InlierRank(preds, i)] = EnhancedScaled[i]
             /\ Len(scored.labels) = Len(scored.X)
             /\ -1 \notin Range(scored.labels)
             /\ <<scored.X>> = ret.kmeans_fit_args
    /\ (Ran("run_standard_analysis") /\ ret.metrics_args # <<>>) =>
          LET scored == ret.metrics_args[1]
          IN /\ scored.X = StandardScaled
             /\ Len(scored.labels) = Len(session.heap[session.data_for_standard].rows)
             /\ <<scored.X>> = ret.kmeans_fit_args

\* an enhanced run that scored its clustering after dropping an outlier
C6_Witness ==
    /\ Ran("run_enhanced_analysis")
    /\ ret.metrics_args # <<>>
    /\ Len(ret.metrics_args[1].X) < Len(ret.outlier_preds[1])
    /\ ret.outcome.ok

\* C7: no run changes the tables of the session: data_for_standard and
\* data_for_enhanced keep their rows and their columns.
C7_SessionTablesUnchanged ==
    [][session # Idle =>
          /\ session'.data_for_standard = session.data_for_standard
          /\ session'.data_for_enhanced = session.data_for_enhanced
          /\ session'.heap = session.heap]_vars

\* an enhanced run returned a table with fewer rows and more columns than the
\* session table it was given
C7_Witness ==
    /\ Ran("run_enhanced_analysis")
    /\ ret.outcome.ok
    /\ "data" \in DOMAIN ret.outcome.value
    /\ Len(ret.outcome.value.data.rows)
          < Len(session.heap[session.data_for_enhanced].rows)
    /\ "hour" \in ret.outcome.value.data.columns
    /\ session.heap[session.data_for_enhanced].columns = GeocodedColumns

\* ---- claims the code does not meet ---------------------------------------
\* C8: a clustering asked for k < 1 clusters, or for more clusters than there
\* are distinct rows, fails.
C8_FailsBeyondDistinctRows ==
    (FitCalled /\ call.kmeans_fit_args # <<>>
        /\ (est.n_clusters < 1
               \/ est.n_clusters > Cardinality(Range(call.kmeans_fit_args[1])))) =>
        ~call.outcome.ok

\* C9: two calls of the same operation on the same estimator (built for one
\* cluster or more) and the same input do the same: the same outlier mask,
\* labels, cost and outcome.
C9_RepeatedCallsAgree ==
    [][(FitCalled /\ est.n_clusters >= 1 /\ call'.op = call.op) => call' = call]_vars

\* ---- C10 -----------------------------------------------------------------
GeocodeReturned == geo # Idle /\ geo.op = "geocode_dataframe" /\ geo.returned # None

\* the strictly increasing maps from m output positions to n input positions
Increasing(m, n) == {f \in [1..m -> 1..n] : \A a, b \in 1..m : a < b => f[a] < f[b]}

\* the returned row is the input row with its coordinates and parsed time
IsRowOf(out, in, loc_col, time_col) ==
    /\ in[loc_col] # NaN
    /\ Geocode(Val(in[loc_col])) # None
    /\ ToDatetime(in[time_col]) # NaN
    /\ out["location"] = in[loc_col]
    /\ out[time_col] = in[time_col]
    /\ out["latitude"] = Cell(Geocode(Val(in[loc_col]))[1][1])
    /\ out["longitude"] = Cell(Geocode(Val(in[loc_col]))[1][2])
    /\ out["timestamp"] = ToDatetime(in[time_col])
    /\ out["latitude"] # NaN /\ out["longitude"] # NaN /\ out["timestamp"] # NaN

\* C10: every row of a table geocode_dataframe returns is an input row, in
\* the input's order, whose location is present and mapped and whose time
\* parses; it carries the mapped coordinates and the parsed time, so a row
\* with a null or unmapped location or an unparseable time is never returned
\* and no row is given placeholder coordinates.
C10_UnmappedRowsExcluded ==
    GeocodeReturned =>
        LET out == geo.returned[1].rows
        IN \E f \in Increasing(Len(out), Len(input.rows)) :
               \A j \in DOMAIN out :
                   IsRowOf(out[j], input.rows[f[j]], geo.loc_col, geo.time_col)

\* a table is returned that keeps a mapped row and leaves out a row whose
\* location is present but unknown to the geocoder
C10_Witness ==
    /\ GeocodeReturned
    /\ Len(geo.returned[1].rows) >= 1
    /\ \E i \in DOMAIN input.rows :
           /\ input.rows[i][geo.loc_col] # NaN
           /\ Geocode(Val(input.rows[i][geo.loc_col])) = None
           /\ ToDatetime(input.rows[i][geo.time_col]) # NaN

\* ---- C11 -----------------------------------------------------------------
\* the call fell back to the default: the knee detection raised or found no
\* elbow
FellBack == SelectedOk /\ (~ksel.knee[1].ok \/ ksel.knee[1].value = None)

\* C11: a call that fell back to k = 4 can be told from one that detected the
\* elbow at k = 4: on the same sweep, detecting 4 would have given the caller
\* something else.
C11_FallbackObservable ==
    FellBack =>
        \A knee \in KneeOutcomes(ksel.kmeans_fits) :
            (knee.ok /\ knee.value = Some(DefaultK)) =>
                Observed(find_optimal_k(input, ksel.k_range, knee)) # Observed(ksel)

\* ---- C14 -----------------------------------------------------------------
Detected == ret # Idle /\ ret.op = "auto_detect_columns"

\* the columns still unused when role number r is resolved
RECURSIVE RemainingAt(_, _, _)
RemainingAt(r, columns, detected_cols) ==
    IF r = 1 THEN columns
    ELSE LET before == RemainingAt(r - 1, columns, detected_cols)
             taken == detected_cols[Roles[r - 1]]
         IN IF taken = None THEN before
            ELSE LET at == Least({i \in DOMAIN before : before[i] = taken[1]})
                 IN [i \in 1..(Len(before) - 1) |-> IF i < at THEN before[i] ELSE before[i + 1]]

\* the role has the first unused column matching the first of its keywords
\* that matches an unused column, and None when no keyword matches one
RoleResolved(r, columns, detected_cols) ==
    LET unused == RemainingAt(r, columns, detected_cols)
        keywords == col_keywords[Roles[r]]
        got == detected_cols[Roles[r]]
        matching == {j \in DOMAIN keywords :
                        \E i \in DOMAIN unused : Matches(keywords[j], unused[i])}
    IN IF matching = {} THEN got = None
       ELSE \E i \in DOMAIN unused :
               /\ got = Some(unused[i])
               /\ Matches(keywords[Least(matching)], unused[i])
               /\ \A h \in 1..(i - 1) : ~Matches(keywords[Least(matching)], unused[h])

NoNameTwice(detected_cols) ==
    \A r1, r2 \in Range(Roles) :
        (r1 # r2 /\ detected_cols[r1] # None) => detected_cols[r1] # detected_cols[r2]

\* C14 as stated: for every list, each role is None or a name of the list, no
\* name has two roles, and the roles are resolved in order.
C14_NoNameInTwoRoles ==
    Detected =>
        /\ \A role \in Range(Roles) :
              ret.detected_cols[role] = None \/ ret.detected_cols[role][1] \in Range(input)
        /\ NoNameTwice(ret.detected_cols)
        /\ \A r \in DOMAIN Roles : RoleResolved(r, input, ret.detected_cols)

\* C14 (amended): each role is None or a name of the list and the roles are
\* resolved in order, each from the columns the earlier roles left; a role
\* never takes a column another role took, so when the names of the list
\* are distinct no name has two roles.
C14_NoColumnInTwoRoles ==
    Detected =>
        /\ \A role \in Range(Roles) :
              ret.detected_cols[role] = None \/ ret.detected_cols[role][1] \in Range(input)
        /\ \A r \in DOMAIN Roles : RoleResolved(r, input, ret.detected_cols)
        /\ Cardinality({role \in Range(Roles) : ret.detected_cols[role] # None})
              <= Len(input)
        /\ (Cardinality(Range(input)) = Len(input)) => NoNameTwice(ret.detected_cols)

\* distinct names, one of them matching the keywords of two roles: it got the
\* first role and the second role went to a later column
C14_Witness ==
    /\ Detected
    /\ Cardinality(Range(input)) = Len(input)
    /\ ret.detected_cols["location"] = Some("loc_time")
    /\ ret.detected_cols["timestamp"] \in {Some("Time"), Some("date")}

\* ---- C16 -----------------------------------------------------------------
Fitted(e) == <<e.labels_, e.cluster_centers_, e.inertia_>>

\* C16: labels_, cluster_centers_ and inertia_ are all unset or all set; a
\* call of fit that succeeds sets the three from its own clustering, and a
\* call that fails leaves the three as they were.
C16_ResultsFromOneFit ==
    /\ [](est # Idle =>
            \/ Fitted(est) = <<None, None, None>>
            \/ None \notin Range(Fitted(est)))
    /\ [][est # Idle =>
            IF call'.outcome.ok
            THEN /\ est'.cluster_centers_ = Some(call'.kmeans[1].cluster_centers_)
                 /\ est'.inertia_ = Some(call'.kmeans[1].inertia_)
                 /\ Len(est'.labels_[1]) = Len(call'.X)
                 /\ \A i \in DOMAIN call'.X :
                       est'.labels_[1][i] =
                           IF call'.outlier_preds[1][i] = 1
                           THEN call'.kmeans[1].labels_[InlierRank(call'.outlier_preds[1], i)]
                           ELSE -1
            ELSE Fitted(est') = Fitted(est)]_vars

\* a call failed the inlier-count check on an estimator that holds the
\* results of an earlier fit
C16_Witness ==
    /\ FitCalled
    /\ FitNotEnough
    /\ None \notin Range(Fitted(est))

\* ---- C12 -----------------------------------------------------------------
\* C12: the step is upload, mapping or analysis and moves only from upload to
\* mapping and from mapping to analysis; it moves to analysis only on a
\* geocoded table that is not None and has rows, and the filter button moves
\* it to mapping only on a filter result that is not None and has rows.
C12_StepsOnlyForward ==
    [][AppRunning =>
          /\ session'.step \in {"upload", "mapping", "analysis"}
          /\ session'.step # session.step =>
                /\ <<session.step, session'.step>>
                      \in {<<"upload", "mapping">>, <<"mapping", "analysis">>}
                /\ session'.step = "analysis" =>
                      /\ ret'.event.op = "confirm"
                      /\ ret'.event.geocoded_data # None
                      /\ Len(ret'.event.geocoded_data[1].rows) > 0
                      /\ ret'.event.geocoded_data[1].columns # {}
                /\ session'.step = "mapping" =>
                      /\ ret'.event.op \in {"proceed", "apply_filter"}
                      /\ ret'.event.op = "apply_filter" =>
                            /\ ret'.event.filtered_data # None
                            /\ Len(ret'.event.filtered_data[1].rows) > 0]_vars

\* the analysis step reached by a confirm on a table of two rows or more, all
\* of them carrying the label the filter keeps
C12_Witness ==
    /\ AppRunning
    /\ session.step = "analysis"
    /\ ret.event.op = "confirm"
    /\ \A i \in DOMAIN session.data[1].rows : session.data[1].rows[i]["label"] = Cell("Fake")
    /\ Len(session.data[1].rows) >= 2

\* ---- C13 -----------------------------------------------------------------
\* C13: enhanced_results is set only when standard_results is set, and the
\* enhanced run is started only from a session whose standard_results is set.
C13_EnhancedAfterStandard ==
    /\ [](AppRunning => (session.enhanced_results # None => session.standard_results # None))
    /\ [][(AppRunning /\ ret'.event.op = "run_enhanced") =>
             session.standard_results # None]_vars

\* both results are stored, the enhanced one from a run after the standard one
C13_Witness ==
    /\ AppRunning
    /\ ret.event.op = "run_enhanced"
    /\ session.enhanced_results # None
    /\ session.standard_results # None

\* ---- C15 -----------------------------------------------------------------
\* C15: when the final comparison is shown, both stored results were computed
\* with the K the slider shows.
C15_ComparisonAtOneK ==
    (AppRunning /\ ComparisonShown(session)) =>
        /\ ret.standard_k = session.k_clusters
        /\ ret.enhanced_k = session.k_clusters

====
